---- MODULE Spec2Model ----
(***************************************************************************)
(* The malloc-family wrappers of Heap-Layers (wrappers/macwrapper.cpp and  *)
(* the generic realloc/calloc of wrapper-common.h) over an underlying      *)
(* allocator that supplies xxmalloc, xxfree and xxmalloc_usable_size.      *)
(*                                                                         *)
(* Addresses and sizes are size_t values of WordBits bits; every           *)
(* arithmetic step of the wrappers is taken modulo 2^WordBits.  The heap   *)
(* is the set of live blocks of the underlying allocator, each with its    *)
(* usable size and its bytes (run-length encoded, 0 = zero byte, 1 = a     *)
(* non-zero byte).  Every wrapper is one action; the calls it makes to     *)
(* xxmalloc and xxfree are recorded, in order, in `calls`.  The fork       *)
(* handlers (xxmalloc_lock / xxmalloc_unlock around fork) are followed    *)
(* with worker threads that make their allocator calls one at a time.     *)
(***************************************************************************)
EXTENDS Integers, Sequences, FiniteSets, TLC

\* ---------------------------------------------------------------- bounds

\* Forks the process makes.
MaxForks == 2

\* Width of size_t in bits.
WordBits == 16

\* Highest address of the arena the underlying allocator hands blocks from.
HeapTop == 16383

\* ------------------------------------------------------ program constants

alignof_max_align_t == 16

kPageSize == 4096

EINVAL == 22

ENOMEM == 12

\* ------------------------------------------------------- size_t arithmetic

Word == 2 ^ WordBits

SIZE_MAX == Word - 1

Add(x, y) == (x + y) % Word

Sub(x, y) == (x + Word - y) % Word

Mul(x, y) == (x * y) % Word

Shl1(x) == (2 * x) % Word

Not(x) == SIZE_MAX - x

RECURSIVE BitAnd(_, _, _)
BitAnd(x, y, n) ==
  IF n = 0 THEN 0
  ELSE (IF x % 2 = 1 /\ y % 2 = 1 THEN 1 ELSE 0)
       + 2 * BitAnd(x \div 2, y \div 2, n - 1)

And(x, y) == BitAnd(x, y, WordBits)

\* ------------------------------------------------------------ block bytes
\* The bytes of a block are a sequence of runs <<length, value>>.

Fill(n, v) == IF n = 0 THEN <<>> ELSE << <<n, v>> >>

RECURSIVE RunLen(_)
RunLen(runs) == IF runs = <<>> THEN 0 ELSE Head(runs)[1] + RunLen(Tail(runs))

RECURSIVE Take(_, _)
Take(runs, n) ==
  IF n = 0 \/ runs = <<>> THEN <<>>
  ELSE IF Head(runs)[1] <= n
       THEN <<Head(runs)>> \o Take(Tail(runs), n - Head(runs)[1])
       ELSE << <<n, Head(runs)[2]>> >>

RECURSIVE Drop(_, _)
Drop(runs, n) ==
  IF n = 0 \/ runs = <<>> THEN runs
  ELSE IF Head(runs)[1] <= n
       THEN Drop(Tail(runs), n - Head(runs)[1])
       ELSE << <<Head(runs)[1] - n, Head(runs)[2]>> >> \o Tail(runs)

RECURSIVE Merge(_)
Merge(runs) ==
  IF Len(runs) <= 1 THEN runs
  ELSE LET r == Merge(Tail(runs)) IN
       IF Head(runs)[2] = Head(r)[2]
       THEN << <<Head(runs)[1] + Head(r)[1], Head(runs)[2]>> >> \o Tail(r)
       ELSE <<Head(runs)>> \o r

\* The bytes `runs` with `src` written over them from offset `off`.
Overwrite(runs, off, src) ==
  Merge(Take(runs, off) \o src \o Drop(runs, off + RunLen(src)))

AllZero(runs) == \A i \in DOMAIN runs : runs[i][2] = 0

\* ---------------------------------------------------- underlying allocator
\* A heap is a function from the start address of each live block to
\* [size |-> usable size, bytes |-> contents].

EmptyHeap == [a \in {} |-> [size |-> 0, bytes |-> <<>>]]

\* Start addresses the allocator may return (none is null).
Addrs == {8, 16}

\* Bytes the allocator may give beyond the requested size.
Extra == {0, 1}

\* What a fresh block holds: zero bytes or non-zero bytes.
Fills == {0, 1}

Inside(p, a, u) == p = a \/ (a <= p /\ p < a + u)

HasBlock(h, p) == \E a \in DOMAIN h : Inside(p, a, h[a].size)

BlockOf(h, p) == CHOOSE a \in DOMAIN h : Inside(p, a, h[a].size)

Fits(h, a, u) ==
  /\ a + u <= HeapTop + 1
  /\ \A b \in DOMAIN h : ~Inside(a, b, h[b].size) /\ ~Inside(b, a, u)

NullBlock == [ptr |-> 0, size |-> 0, fill |-> 0]

\* xxmalloc(s): null, or a fresh block of usable size >= s disjoint from
\* every live block.
xxmalloc(h, s) ==
  {NullBlock} \cup
  {r \in [ptr : Addrs, size : {s + e : e \in Extra}, fill : Fills] :
     Fits(h, r.ptr, r.size)}

\* The heap once xxmalloc has returned r.
After(h, r) ==
  IF r.ptr = 0 THEN h
  ELSE [a \in DOMAIN h \cup {r.ptr} |->
          IF a = r.ptr THEN [size |-> r.size, bytes |-> Fill(r.size, r.fill)]
          ELSE h[a]]

\* xxfree(p) of null or of a pointer into a live block (the allocator
\* resolves an interior pointer to its block).
xxfree(h, p) ==
  IF p = 0 \/ ~HasBlock(h, p) THEN h
  ELSE [a \in DOMAIN h \ {BlockOf(h, p)} |-> h[a]]

\* xxfree(p) in general: freeing a pointer that is in no live block is
\* undefined; the process either carries on with the heap as it was or dies.
xxfreeOutcomes(h, p) ==
  IF p = 0 \/ HasBlock(h, p)
  THEN {[heap |-> xxfree(h, p), crashed |-> FALSE]}
  ELSE {[heap |-> h, crashed |-> c] : c \in BOOLEAN}

\* xxmalloc_usable_size(p): the bytes from p to the end of its block.
xxmalloc_usable_size(h, p) ==
  IF HasBlock(h, p)
  THEN LET a == BlockOf(h, p) IN h[a].size - (p - a)
  ELSE 0

\* The bytes from p to the end of its block.
BytesAt(h, p) == LET a == BlockOf(h, p) IN Drop(h[a].bytes, p - a)

\* memcpy(dst, src, n) and memset(dst, 0, n), dst a block start.
memcpy(h, dst, src, n) ==
  [h EXCEPT ![dst].bytes = Overwrite(@, 0, Take(BytesAt(h, src), n))]

\* Mutant of memset: nothing is written.
memset0_skip(h, dst, n) == h

memset0(h, dst, n) ==
  [h EXCEPT ![dst].bytes = Overwrite(@, 0, Fill(n, 0))]

\* ------------------------------------------------------ outcomes of a call

MallocCall(s, p) == [fn |-> "malloc", arg |-> s, ret |-> p]

FreeCall(p) == [fn |-> "free", arg |-> p, ret |-> 0]

Out(r, h, cs) == [ret |-> r, heap |-> h, calls |-> cs, status |-> "returned"]

\* ------------------------------------------------- realloc (wrapper-common)

\* Mutants of the shrink test: a strict upper comparison; no upper one.
ShrinkInPlace_strict(oldSize, newSize) ==
  (newSize > oldSize \div 2) /\ (newSize < oldSize)

ShrinkInPlace_unbounded(oldSize, newSize) == newSize > oldSize \div 2

\* "Don't change size if the object is shrinking by less than half."
ShrinkInPlace(oldSize, newSize) ==
  LET upperBoundToShrink == oldSize \div 2 IN
  (newSize > upperBoundToShrink) /\ (newSize <= oldSize)

\* Mutant of the growth bound: the quarter without the old size.
GrowTarget_quarter(oldSize, newSize) ==
  LET lowerBoundToGrow == oldSize \div 4 IN
  IF newSize < lowerBoundToGrow THEN lowerBoundToGrow ELSE newSize

\* "always grow by at least 1.25x": the size asked of xxmalloc.
GrowTarget(oldSize, newSize) ==
  LET lowerBoundToGrow == Add(oldSize, oldSize \div 4) IN
  IF newSize < lowerBoundToGrow THEN lowerBoundToGrow ELSE newSize

\* The relocating tail of realloc: xxmalloc, memcpy, return.
Relocate(h, oldPtr, oldSize, newSize) ==
  { IF r.ptr = 0
    THEN Out(0, h, <<MallocCall(newSize, 0)>>)
    ELSE LET copySize == IF oldSize < newSize THEN oldSize ELSE newSize IN
         Out(r.ptr, memcpy(After(h, r), r.ptr, oldPtr, copySize),
             <<MallocCall(newSize, r.ptr)>>)
    : r \in xxmalloc(h, newSize) }

\* Mutant of the zero-size branch: the old block is not freed.
ReallocToZero_nofree(h, oldPtr) ==
  { Out(r.ptr, After(h, r), <<MallocCall(1, r.ptr)>>) : r \in xxmalloc(h, 1) }

\* Mutant of the zero-size branch: the new size is passed on as it is.
ReallocToZero_zero(h, oldPtr) ==
  LET h1 == xxfree(h, oldPtr) IN
  { Out(r.ptr, After(h1, r), <<FreeCall(oldPtr), MallocCall(0, r.ptr)>>)
    : r \in xxmalloc(h1, 0) }

\* "0 size = free. We return a small object.": xxfree, then xxmalloc(1).
ReallocToZero(h, oldPtr) ==
  LET h1 == xxfree(h, oldPtr) IN
  { Out(r.ptr, After(h1, r), <<FreeCall(oldPtr), MallocCall(1, r.ptr)>>)
    : r \in xxmalloc(h1, 1) }

\* xxrealloc(oldPtr, newSize): the set of its possible outcomes on heap h.
\* (The source reads the usable size of `ptr`, a name it does not declare;
\* the pointer at hand is oldPtr.)
xxrealloc(h, oldPtr, newSize) ==
  IF oldPtr = 0
  THEN { Out(r.ptr, After(h, r), <<MallocCall(newSize, r.ptr)>>)
         : r \in xxmalloc(h, newSize) }
  ELSE IF newSize = 0
  THEN ReallocToZero(h, oldPtr)
  ELSE LET oldSize == xxmalloc_usable_size(h, oldPtr) IN
       IF ShrinkInPlace(oldSize, newSize)
       THEN { Out(oldPtr, h, <<>>) }
       ELSE Relocate(h, oldPtr, oldSize, GrowTarget(oldSize, newSize))

\* Mutant of reallocf: plain realloc, the old block kept on failure.
reallocf_keep(h, oldPtr, newSize) == xxrealloc(h, oldPtr, newSize)

\* replace_reallocf: realloc, and xxfree(oldPtr) when it returned null.
reallocf(h, oldPtr, newSize) ==
  UNION { IF o.ret = 0
          THEN { [ret |-> 0, heap |-> f.heap,
                  calls |-> o.calls \o <<FreeCall(oldPtr)>>,
                  status |-> IF f.crashed THEN "crashed" ELSE "returned"]
                 : f \in xxfreeOutcomes(o.heap, oldPtr) }
          ELSE { o }
          : o \in xxrealloc(h, oldPtr, newSize) }

\* -------------------------------------------------- calloc (wrapper-common)

\* Mutant of the overflow guard: off by one.
CallocOverflow_offbyone(count, size) ==
  size # 0 /\ count >= SIZE_MAX \div size

CallocOverflow(count, size) == size # 0 /\ count > SIZE_MAX \div size

xxcalloc(h, count, size) ==
  IF CallocOverflow(count, size)
  THEN { Out(0, h, <<>>) }
  ELSE LET n == Mul(count, size) IN
       { IF r.ptr # 0
         THEN Out(r.ptr, memset0(After(h, r), r.ptr, n), <<MallocCall(n, r.ptr)>>)
         ELSE Out(0, h, <<MallocCall(n, 0)>>)
         : r \in xxmalloc(h, n) }

\* ------------------------------------------------------ memalign (macwrapper)

\* while (a < alignment) a <<= 1;  0 stands for a loop that never ends
\* (a has wrapped to 0 and stays below alignment).
RECURSIVE RoundUpLoop(_, _)
RoundUpLoop(a, alignment) ==
  IF ~(a < alignment) THEN a
  ELSE IF Shl1(a) = a THEN 0
  ELSE RoundUpLoop(Shl1(a), alignment)

NormalizeAlignment(alignment) ==
  LET a1 == IF alignment < alignof_max_align_t
            THEN alignof_max_align_t ELSE alignment IN
  IF And(a1, Sub(a1, 1)) # 0
  THEN RoundUpLoop(alignof_max_align_t, a1)
  ELSE a1

\* Mutant of the alignment test: the mask is ~alignment.
IsAligned_mask(ptr, alignment) == And(ptr, Not(alignment)) = ptr

\* ((size_t)ptr & ~(alignment - 1)) == (size_t)ptr
IsAligned(ptr, alignment) == And(ptr, Not(Sub(alignment, 1))) = ptr

\* "Force size to be a multiple of alignment."
RoundedSize(size, alignment) ==
  IF alignment < size
  THEN Sub(Add(size, alignment), size % alignment)
  ELSE alignment

\* ((size_t)buf + alignment - 1) & ~(alignment - 1)
AlignUp(buf, alignment) ==
  And(Sub(Add(buf, alignment), 1), Not(Sub(alignment, 1)))

\* Mutant of memalign: the second attempt, found misaligned, is not freed.
memalign_leak(h, alignment0, size0) ==
  LET alignment == NormalizeAlignment(alignment0)
      Try3(h2, cs, size) ==
        LET big == Add(Mul(2, alignment), size) IN
        { Out(AlignUp(r.ptr, alignment), After(h2, r),
              cs \o <<MallocCall(big, r.ptr)>>)
          : r \in xxmalloc(h2, big) }
      Try2(h1, cs) ==
        LET size == RoundedSize(size0, alignment) IN
        UNION { IF IsAligned(r.ptr, alignment)
                THEN { Out(r.ptr, After(h1, r), cs \o <<MallocCall(size, r.ptr)>>) }
                ELSE Try3(After(h1, r), cs \o <<MallocCall(size, r.ptr)>>, size)
                : r \in xxmalloc(h1, size) }
  IN
  IF alignment = 0
  THEN { [ret |-> 0, heap |-> h, calls |-> <<>>, status |-> "hung"] }
  ELSE UNION { IF IsAligned(r.ptr, alignment)
               THEN { Out(r.ptr, After(h, r), <<MallocCall(size0, r.ptr)>>) }
               ELSE Try2(xxfree(After(h, r), r.ptr),
                         <<MallocCall(size0, r.ptr), FreeCall(r.ptr)>>)
               : r \in xxmalloc(h, size0) }

memalign(h, alignment0, size0) ==
  LET alignment == NormalizeAlignment(alignment0)
      Try3(h2, cs, size) ==
        LET big == Add(Mul(2, alignment), size) IN
        { Out(AlignUp(r.ptr, alignment), After(h2, r),
              cs \o <<MallocCall(big, r.ptr)>>)
          : r \in xxmalloc(h2, big) }
      Try2(h1, cs) ==
        LET size == RoundedSize(size0, alignment) IN
        UNION { IF IsAligned(r.ptr, alignment)
                THEN { Out(r.ptr, After(h1, r), cs \o <<MallocCall(size, r.ptr)>>) }
                ELSE Try3(xxfree(After(h1, r), r.ptr),
                          cs \o <<MallocCall(size, r.ptr), FreeCall(r.ptr)>>,
                          size)
                : r \in xxmalloc(h1, size) }
  IN
  IF alignment = 0
  THEN { [ret |-> 0, heap |-> h, calls |-> <<>>, status |-> "hung"] }
  ELSE UNION { IF IsAligned(r.ptr, alignment)
               THEN { Out(r.ptr, After(h, r), <<MallocCall(size0, r.ptr)>>) }
               ELSE Try2(xxfree(After(h, r), r.ptr),
                         <<MallocCall(size0, r.ptr), FreeCall(r.ptr)>>)
               : r \in xxmalloc(h, size0) }

\* Mutant of the validation: only zero is rejected.
BadAlignment_zero(alignment) == alignment = 0

\* "Check for non power-of-two alignment."
BadAlignment(alignment) ==
  (alignment = 0) \/ (And(alignment, Sub(alignment, 1)) # 0)

\* replace_posix_memalign: outcomes with the error code in ret and the
\* caller's *memptr in memptr.
posix_memalign(h, mp, alignment, size) ==
  IF BadAlignment(alignment)
  THEN { [ret |-> EINVAL, heap |-> h, calls |-> <<>>, status |-> "returned",
          memptr |-> mp] }
  ELSE { [ret |-> IF o.status = "returned" /\ o.ret # 0 THEN 0 ELSE ENOMEM,
          heap |-> o.heap, calls |-> o.calls, status |-> o.status,
          memptr |-> IF o.status = "returned" /\ o.ret # 0 THEN o.ret ELSE mp]
         : o \in memalign(h, alignment, size) }

\* replace_malloc_good_size: xxmalloc(sz), the usable size of what came
\* back, xxfree; the result is that size.
malloc_good_size(h, sz) ==
  { Out(xxmalloc_usable_size(After(h, r), r.ptr),
        xxfree(After(h, r), r.ptr),
        <<MallocCall(sz, r.ptr), FreeCall(r.ptr)>>)
    : r \in xxmalloc(h, sz) }

\* ------------------------------------------------------------------- state

VARIABLES
  heap,    \* the live blocks of the underlying allocator
  owned,   \* the pointers the application holds
  memptr,  \* the application's *memptr slot for posix_memalign
  op,      \* the last call: name, arguments, result, status
  calls,   \* the xxmalloc / xxfree calls the last call made, in order
  pre,     \* heap and *memptr as the last call found them
  family,  \* the family of calls the application uses ("any": all of them)
  lock,    \* the thread holding the allocator's heap lock, 0 if none
  thr,     \* each worker thread: its entry point and its place in it
  forker,  \* the forking thread: its place and the lock / unlock calls made
  children \* per child process, the unlock calls its fork handler has made

threads == <<lock, thr, forker, children>>

vars == <<heap, owned, memptr, op, calls, pre, family, threads>>

\* ------------------------------------------------------------------ inputs

MallocSizes == {0, 8}

ReallocSizes == {0, 4, 5, 9}

CallocValues == {0, 2, 3, SIZE_MAX \div 2, SIZE_MAX \div 2 + 1, SIZE_MAX}

\* <<count, size>> with one of the two small.
CallocArgs == {cs \in CallocValues \X CallocValues : cs[1] <= 3 \/ cs[2] <= 3}

MemalignAlignments == {3, 16, 24, 32, Word \div 2 + 8}

MemalignSizes == {0, 1, 17}

GoodSizes == {0, 8}

Families == {"resize", "zeroed", "aligned", "size"}

\* The worker threads and the thread that forks.
Workers == {1, 2}

Forker == 3

\* What the worker threads call.
WorkerSizes == {0, 9}

WorkerAlignments == {16, 32}

PosixAlignments == {0, 3, 8}

\* ----------------------------------------------------------------- actions

\* The process before its first call.
InitProcess ==
  /\ heap = EmptyHeap
  /\ owned = {}
  /\ memptr = 0
  /\ op = [name |-> "init", a1 |-> 0, a2 |-> 0, ret |-> 0, status |-> "returned"]
  /\ calls = <<>>
  /\ pre = [heap |-> EmptyHeap, memptr |-> 0]

Idle == [name |-> "idle", plan |-> <<>>, at |-> 1, inside |-> FALSE]

\* No thread but the main one, no fork yet.
InitThreads ==
  /\ lock = 0
  /\ thr = [t \in Workers |-> Idle]
  /\ forker = [pc |-> "idle", forks |-> 0, locks |-> 0, unlocks |-> 0]
  /\ children = <<>>

Init == InitProcess /\ InitThreads /\ family = "any"

\* The process is running: no call has hung or died.
Running == op.status = "returned"

Commit(name, x, y, o, newOwned) ==
  /\ heap' = o.heap
  /\ calls' = o.calls
  /\ op' = [name |-> name, a1 |-> x, a2 |-> y, ret |-> o.ret, status |-> o.status]
  /\ pre' = [heap |-> heap, memptr |-> memptr]
  /\ owned' = newOwned
  /\ UNCHANGED <<family, threads>>

replace_malloc ==
  /\ Running
  /\ \E sz \in MallocSizes :
       \E r \in xxmalloc(heap, sz) :
         /\ Commit("malloc", sz, 0,
                   Out(r.ptr, After(heap, r), <<MallocCall(sz, r.ptr)>>),
                   owned \cup ({r.ptr} \ {0}))
         /\ UNCHANGED memptr

replace_free ==
  /\ Running
  /\ \E ptr \in owned \cup {0} :
       \E f \in xxfreeOutcomes(heap, ptr) :
         /\ Commit("free", ptr, 0,
                   [ret |-> 0, heap |-> f.heap, calls |-> <<FreeCall(ptr)>>,
                    status |-> IF f.crashed THEN "crashed" ELSE "returned"],
                   owned \ {ptr})
         /\ UNCHANGED memptr

replace_realloc ==
  /\ Running
  /\ \E oldPtr \in owned \cup {0}, newSize \in ReallocSizes :
       \E o \in xxrealloc(heap, oldPtr, newSize) :
         /\ Commit("realloc", oldPtr, newSize, o,
                   IF o.ret # 0 THEN (owned \ {oldPtr}) \cup {o.ret}
                   ELSE IF newSize = 0 THEN owned \ {oldPtr}
                   ELSE owned)
         /\ UNCHANGED memptr

replace_reallocf ==
  /\ Running
  /\ \E oldPtr \in owned \cup {0}, newSize \in ReallocSizes :
       \E o \in reallocf(heap, oldPtr, newSize) :
         /\ Commit("reallocf", oldPtr, newSize, o,
                   (owned \ {oldPtr}) \cup ({o.ret} \ {0}))
         /\ UNCHANGED memptr

replace_calloc ==
  /\ Running
  /\ \E cs \in CallocArgs :
       \E o \in xxcalloc(heap, cs[1], cs[2]) :
         /\ Commit("calloc", cs[1], cs[2], o, owned \cup ({o.ret} \ {0}))
         /\ UNCHANGED memptr

replace_memalign ==
  /\ Running
  /\ \E alignment \in MemalignAlignments, size \in MemalignSizes :
       \E o \in memalign(heap, alignment, size) :
         /\ Commit("memalign", alignment, size, o, owned \cup ({o.ret} \ {0}))
         /\ UNCHANGED memptr

replace_posix_memalign ==
  /\ Running
  /\ \E alignment \in PosixAlignments, size \in MemalignSizes :
       \E o \in posix_memalign(heap, memptr, alignment, size) :
         /\ Commit("posix_memalign", alignment, size, o,
                   IF o.ret = 0 THEN owned \cup {o.memptr} ELSE owned)
         /\ memptr' = o.memptr

replace_valloc ==
  /\ Running
  /\ \E sz \in MemalignSizes :
       \E o \in memalign(heap, kPageSize, sz) :
         /\ Commit("valloc", sz, 0, o, owned \cup ({o.ret} \ {0}))
         /\ UNCHANGED memptr

replace_malloc_good_size ==
  /\ Running
  /\ \E sz \in GoodSizes :
       \E o \in malloc_good_size(heap, sz) :
         /\ Commit("malloc_good_size", sz, 0, o, owned)
         /\ UNCHANGED memptr

Next ==
  \/ replace_malloc_good_size
  \/ replace_malloc
  \/ replace_free
  \/ replace_realloc
  \/ replace_reallocf
  \/ replace_calloc
  \/ replace_memalign
  \/ replace_posix_memalign
  \/ replace_valloc

Spec == Init /\ [][Next]_vars

\* The components on their own: the application uses one family of calls.

NextResize ==
  \/ replace_malloc
  \/ replace_free
  \/ replace_realloc
  \/ replace_reallocf

SpecResize == Init /\ [][NextResize]_vars

NextZeroed ==
  \/ replace_malloc
  \/ replace_free
  \/ replace_calloc

SpecZeroed == Init /\ [][NextZeroed]_vars

NextAligned ==
  \/ replace_free
  \/ replace_memalign
  \/ replace_posix_memalign
  \/ replace_valloc

SpecAligned == Init /\ [][NextAligned]_vars

NextSize ==
  \/ replace_malloc
  \/ replace_free
  \/ replace_malloc_good_size

\* Every entry point: the application keeps to the family it starts with.
InitCore == InitProcess /\ InitThreads /\ family \in Families

NextCore ==
  \/ family = "resize" /\ NextResize
  \/ family = "zeroed" /\ NextZeroed
  \/ family = "aligned" /\ NextAligned
  \/ family = "size" /\ NextSize

SpecCore == InitCore /\ [][NextCore]_vars

\* ------------------------------------------------------- threads and fork
\* Worker threads call the entry points while another thread forks.  The
\* underlying allocator is thread-safe: a thread is inside xxmalloc or
\* xxfree only while it holds the heap lock, the lock xxmalloc_lock takes.
\* A worker makes the allocator calls of its entry point one at a time;
\* here the blocks themselves are left out: `heap` stays as the threads
\* found it, and what is followed is who is where.

\* The xxmalloc / xxfree calls of an outcome, by name, in order.
Plan(o) == [i \in DOMAIN o.calls |-> o.calls[i].fn]

\* The call sequences of the entry points a worker may be in.
WorkerCalls ==
  UNION { {[name |-> "realloc", plan |-> Plan(o)]
             : o \in xxrealloc(heap, p, n)}
          \cup {[name |-> "reallocf", plan |-> Plan(o)]
             : o \in reallocf(heap, p, n)}
          : p \in owned \cup {0}, n \in WorkerSizes }
  \cup { [name |-> "calloc", plan |-> Plan(o)]
         : o \in UNION {xxcalloc(heap, cs[1], cs[2]) : cs \in CallocArgs} }
  \cup { [name |-> "memalign", plan |-> Plan(o)]
         : o \in UNION {memalign(heap, a, 1) : a \in WorkerAlignments} }

\* A worker enters an entry point.
thread_call(t) ==
  /\ thr[t].name = "idle"
  /\ \E c \in WorkerCalls :
       thr' = [thr EXCEPT ![t] = [name |-> c.name, plan |-> c.plan,
                                  at |-> 1, inside |-> FALSE]]
  /\ UNCHANGED <<heap, owned, memptr, op, calls, pre, family,
                 lock, forker, children>>

\* A worker enters its next xxmalloc / xxfree: it takes the heap lock.
allocator_enter(t) ==
  /\ thr[t].name # "idle"
  /\ ~thr[t].inside
  /\ thr[t].at <= Len(thr[t].plan)
  /\ lock = 0
  /\ lock' = t
  /\ thr' = [thr EXCEPT ![t].inside = TRUE]
  /\ UNCHANGED <<heap, owned, memptr, op, calls, pre, family, forker, children>>

\* The xxmalloc / xxfree returns: the heap lock is released.
allocator_leave(t) ==
  /\ thr[t].inside
  /\ lock' = 0
  /\ thr' = [thr EXCEPT ![t].inside = FALSE, ![t].at = @ + 1]
  /\ UNCHANGED <<heap, owned, memptr, op, calls, pre, family, forker, children>>

\* The entry point returns to the worker.
thread_return(t) ==
  /\ thr[t].name # "idle"
  /\ ~thr[t].inside
  /\ thr[t].at > Len(thr[t].plan)
  /\ thr' = [thr EXCEPT ![t] = Idle]
  /\ UNCHANGED <<heap, owned, memptr, op, calls, pre, family,
                 lock, forker, children>>

\* xxmalloc_lock(): wait for the heap lock and take it.
xxmalloc_lock(t) == lock = 0 /\ lock' = t

\* xxmalloc_unlock() in the process of the worker threads.
xxmalloc_unlock == lock' = 0

\* Mutant of the prepare handler: the heap lock is not taken.
replace__malloc_fork_prepare_nolock ==
  /\ forker.pc = "idle"
  /\ forker.forks < MaxForks
  /\ forker' = [forker EXCEPT !.pc = "prepared"]
  /\ UNCHANGED <<heap, owned, memptr, op, calls, pre, family, lock, thr, children>>

\* fork() starts: the system calls _malloc_fork_prepare.
replace__malloc_fork_prepare ==
  /\ forker.pc = "idle"
  /\ forker.forks < MaxForks
  /\ xxmalloc_lock(Forker)
  /\ forker' = [forker EXCEPT !.pc = "prepared", !.locks = @ + 1]
  /\ UNCHANGED <<heap, owned, memptr, op, calls, pre, family, thr, children>>

\* The process forks: the child is a copy with the forking thread alone,
\* its copy of the heap lock held and its handler still to run.
fork ==
  /\ forker.pc = "prepared"
  /\ forker' = [forker EXCEPT !.pc = "forked", !.forks = @ + 1]
  /\ children' = Append(children, 0)
  /\ UNCHANGED <<heap, owned, memptr, op, calls, pre, family, lock, thr>>

\* In the parent the system calls _malloc_fork_parent.
replace__malloc_fork_parent ==
  /\ forker.pc = "forked"
  /\ xxmalloc_unlock
  /\ forker' = [forker EXCEPT !.pc = "idle", !.unlocks = @ + 1]
  /\ UNCHANGED <<heap, owned, memptr, op, calls, pre, family, thr, children>>

\* In a child the system calls _malloc_fork_child: xxmalloc_unlock() on
\* the child's copy of the lock.
replace__malloc_fork_child(c) ==
  /\ children[c] = 0
  /\ children' = [children EXCEPT ![c] = @ + 1]
  /\ UNCHANGED <<heap, owned, memptr, op, calls, pre, family, lock, thr, forker>>

\* The threads start once the application holds a block.
InitFork ==
  /\ heap = After(EmptyHeap, [ptr |-> 8, size |-> 8, fill |-> 1])
  /\ owned = {8}
  /\ memptr = 0
  /\ op = [name |-> "malloc", a1 |-> 8, a2 |-> 0, ret |-> 8, status |-> "returned"]
  /\ calls = <<MallocCall(8, 8)>>
  /\ pre = [heap |-> EmptyHeap, memptr |-> 0]
  /\ family = "any"
  /\ InitThreads

NextFork ==
  \/ \E t \in Workers : thread_call(t)
  \/ \E t \in Workers : allocator_enter(t)
  \/ \E t \in Workers : allocator_leave(t)
  \/ \E t \in Workers : thread_return(t)
  \/ replace__malloc_fork_prepare
  \/ fork
  \/ replace__malloc_fork_parent
  \/ \E c \in DOMAIN children : replace__malloc_fork_child(c)

SpecFork == InitFork /\ [][NextFork]_vars


\* ------------------------------------------------------------- properties

Returned(name) == op.name = name /\ op.status = "returned"

\* The usable size the last call found at p.
OldSize(p) == xxmalloc_usable_size(pre.heap, p)

Max(x, y) == IF x < y THEN y ELSE x

PowersOfTwo == {2 ^ k : k \in 0..WordBits}

\* The smallest power of two >= max(alignment, alignof(max_align_t)).
NormalizedAlignment(alignment) ==
  LET want == Max(alignment, alignof_max_align_t) IN
  CHOOSE p \in PowersOfTwo :
    p >= want /\ \A q \in PowersOfTwo : q >= want => p <= q

\* A realloc of a live block to a positive size that moved it.
Relocated ==
  /\ Returned("realloc")
  /\ op.a1 # 0
  /\ op.a2 > 0
  /\ op.ret # 0
  /\ op.ret # op.a1

\* C1: when realloc(oldPtr, newSize), oldPtr non-null and newSize > 0,
\* returns a new non-null address, the old block has been deallocated.
C1_OldBlockFreed == Relocated => ~HasBlock(heap, op.a1)

\* The shrink window: oldSize/2 < n <= oldSize.
InShrinkWindow ==
  /\ Returned("realloc")
  /\ op.a1 # 0
  /\ OldSize(op.a1) \div 2 < op.a2
  /\ op.a2 <= OldSize(op.a1)

\* C2: a realloc in the shrink window returns ptr itself, calls neither
\* xxmalloc nor xxfree, and leaves the live blocks as they were.
C2_ShrinkDampening ==
  InShrinkWindow => op.ret = op.a1 /\ calls = <<>> /\ heap = pre.heap

C2_Witness == InShrinkWindow /\ op.a2 < OldSize(op.a1) /\ op.ret = op.a1

\* A realloc of a live block to more than its usable size.
Growing ==
  /\ Returned("realloc")
  /\ op.a1 # 0
  /\ op.a2 > OldSize(op.a1)

\* C3: a growing realloc asks xxmalloc, once, for
\* max(n, oldSize + oldSize/4) bytes.
C3_GrowthDampening ==
  Growing =>
    /\ Len(calls) = 1
    /\ calls[1].fn = "malloc"
    /\ calls[1].arg = Max(op.a2, OldSize(op.a1) + OldSize(op.a1) \div 4)

C3_Witness ==
  /\ Growing
  /\ OldSize(op.a1) + OldSize(op.a1) \div 4 > op.a2
  /\ op.ret # 0

\* C4: a realloc(p, n), n > 0, that returns a non-null result returns one of
\* usable size >= n, whether p was null, kept in place or moved.
C4_ResultLargeEnough ==
  (Returned("realloc") /\ op.a2 > 0 /\ op.ret # 0) =>
    /\ HasBlock(heap, op.ret)
    /\ xxmalloc_usable_size(heap, op.ret) >= op.a2

C4_Witness ==
  /\ Relocated
  /\ OldSize(op.a1) < op.a2
  /\ xxmalloc_usable_size(heap, op.ret) >= op.a2

\* A reallocf of a live block during which xxmalloc returned null.
ReallocfFailed ==
  /\ Returned("reallocf")
  /\ op.a1 # 0
  /\ HasBlock(pre.heap, op.a1)
  /\ \E i \in DOMAIN calls : calls[i].fn = "malloc" /\ calls[i].ret = 0

\* C5: when the allocation inside reallocf(oldPtr, newSize) fails, reallocf
\* returns null and oldPtr is no longer live.
C5_FreeOnFailure == ReallocfFailed => op.ret = 0 /\ ~HasBlock(heap, op.a1)

C5_Witness == ReallocfFailed /\ op.a2 > 0 /\ op.ret = 0 /\ ~HasBlock(heap, op.a1)

\* A realloc of a live block to size 0.
ResizedToZero == Returned("realloc") /\ op.a1 # 0 /\ op.a2 = 0

\* realloc(ptr, 0) called xxfree(ptr) and then xxmalloc(1), whose result it
\* returns; the block of ptr is gone and the only new block is the result.
FreedThenMinimal ==
  /\ calls = <<FreeCall(op.a1), MallocCall(1, op.ret)>>
  /\ DOMAIN heap =
       (DOMAIN pre.heap \ {BlockOf(pre.heap, op.a1)}) \cup ({op.ret} \ {0})

\* C6 as stated: realloc(ptr, 0) deallocates ptr, returns the block of
\* xxmalloc(1), and the result is never null.
C6_NeverNull == ResizedToZero => FreedThenMinimal /\ op.ret # 0

\* C6 amended: realloc(ptr, 0) deallocates ptr and returns the result of
\* xxmalloc(1): a live block of usable size >= 1, or null when that
\* allocation fails.
C6_FreeThenMinimalBlock ==
  ResizedToZero =>
    /\ FreedThenMinimal
    /\ op.ret # 0 => xxmalloc_usable_size(heap, op.ret) >= 1

C6_Witness == ResizedToZero /\ FreedThenMinimal /\ op.ret = 0

\* C7: calloc(count, size) returns null without calling xxmalloc exactly
\* when count * size does not fit in a size_t; when it fits, xxmalloc is
\* called exactly once, with count * size.
C7_OverflowGuard ==
  Returned("calloc") =>
    /\ (op.ret = 0 /\ calls = <<>>) <=> (op.a1 * op.a2 > SIZE_MAX)
    /\ op.a1 * op.a2 <= SIZE_MAX => calls = <<MallocCall(op.a1 * op.a2, op.ret)>>

C7_Witness ==
  /\ Returned("calloc")
  /\ op.a1 = SIZE_MAX
  /\ op.a2 = 2
  /\ op.ret = 0
  /\ calls = <<>>

\* C8 as stated: every byte of a non-null calloc result, up to its usable
\* size, is zero.
C8_ZeroToUsableSize ==
  (Returned("calloc") /\ op.ret # 0) => AllZero(heap[op.ret].bytes)

\* C8 amended: the first count * size bytes of a non-null calloc result are
\* zero, and the block holds at least that many.
C8_ZeroToRequestedSize ==
  (Returned("calloc") /\ op.ret # 0) =>
    /\ heap[op.ret].size >= op.a1 * op.a2
    /\ RunLen(heap[op.ret].bytes) = heap[op.ret].size
    /\ AllZero(Take(heap[op.ret].bytes, op.a1 * op.a2))

C8_Witness ==
  /\ Returned("calloc")
  /\ op.ret # 0
  /\ op.a1 * op.a2 > 0
  /\ heap[op.ret].size > op.a1 * op.a2
  /\ ~AllZero(heap[op.ret].bytes)
  /\ AllZero(Take(heap[op.ret].bytes, op.a1 * op.a2))

\* The last memalign, valloc or successful posix_memalign: its alignment,
\* size and result.
AlignedCall ==
  \/ Returned("memalign")
  \/ Returned("valloc")
  \/ Returned("posix_memalign") /\ op.ret = 0

AlignedAlignment == IF op.name = "valloc" THEN kPageSize ELSE op.a1

AlignedSize == IF op.name = "valloc" THEN op.a1 ELSE op.a2

AlignedResult == IF op.name = "posix_memalign" THEN memptr ELSE op.ret

\* The third attempt was made: xxmalloc, xxfree, xxmalloc, xxfree, xxmalloc.
ThirdAttempt == Len(calls) = 5

\* C9: a non-null result of memalign is a multiple of the normalized
\* alignment; a result of the third attempt lies in the block buf of that
\* attempt, with size bytes from it inside the bytes requested for buf.
C9_Aligned ==
  (AlignedCall /\ AlignedResult # 0) =>
    /\ AlignedResult % NormalizedAlignment(AlignedAlignment) = 0
    /\ ThirdAttempt =>
         /\ calls[5].fn = "malloc"
         /\ calls[5].ret <= AlignedResult
         /\ AlignedResult + AlignedSize <= calls[5].ret + calls[5].arg
         /\ BlockOf(heap, AlignedResult) = calls[5].ret

C9_Witness ==
  /\ Returned("memalign")
  /\ ThirdAttempt
  /\ op.ret # 0
  /\ op.ret # calls[5].ret
  /\ op.ret % op.a1 = 0

IsPowerOfTwo(x) == x \in {2 ^ k : k \in 0..(WordBits - 1)}

\* C10: posix_memalign with an alignment that is 0 or no power of two
\* returns EINVAL, calls neither xxmalloc nor xxfree and leaves *memptr as it
\* was; otherwise it returns 0 with a non-null pointer stored, or ENOMEM
\* with *memptr as it was.
C10_PosixValidation ==
  Returned("posix_memalign") =>
    IF ~IsPowerOfTwo(op.a1)
    THEN op.ret = EINVAL /\ calls = <<>> /\ memptr = pre.memptr /\ heap = pre.heap
    ELSE \/ op.ret = 0 /\ memptr # 0 /\ HasBlock(heap, memptr)
         \/ op.ret = ENOMEM /\ memptr = pre.memptr

C10_Witness ==
  /\ Returned("posix_memalign")
  /\ op.a1 = 3
  /\ op.ret = EINVAL
  /\ pre.memptr # 0
  /\ memptr = pre.memptr

\* The calls of the last operation that asked xxmalloc for 0 bytes.
ZeroAllocations ==
  {i \in DOMAIN calls : calls[i].fn = "malloc" /\ calls[i].arg = 0}

\* The caller itself asked for 0 bytes: a size of 0, a count or an element
\* size of 0; for realloc and reallocf, size 0 with a null pointer.
RequestIsZero ==
  CASE op.name \in {"malloc", "valloc", "malloc_good_size"} -> op.a1 = 0
    [] op.name \in {"realloc", "reallocf"} -> op.a1 = 0 /\ op.a2 = 0
    [] op.name = "calloc" -> op.a1 = 0 \/ op.a2 = 0
    [] op.name \in {"memalign", "posix_memalign"} -> op.a2 = 0
    [] OTHER -> FALSE

\* C11 as stated: no entry point (malloc, realloc, reallocf, calloc,
\* memalign, posix_memalign, valloc, malloc_good_size), whatever its
\* arguments, ever calls xxmalloc with size 0.
C11_NeverAllocatesZero == ZeroAllocations = {}

\* C11, amended: an entry point calls xxmalloc with size 0 only when its
\* caller asked for 0 bytes; a request for more never turns into a call
\* with size 0, and realloc(ptr, 0) of a non-null ptr asks for 1.
C11_ZeroOnlyWhenAskedZero == ZeroAllocations # {} => RequestIsZero

\* A calloc of 0 elements has passed 0 to xxmalloc, and so has a memalign
\* of 0 bytes.
C11_Witness ==
  /\ op.name \in {"calloc", "memalign"}
  /\ op.status = "returned"
  /\ RequestIsZero
  /\ ZeroAllocations # {}

\* Worker t is inside xxmalloc or xxfree.
InAllocator(t) == thr[t].inside

\* Worker t is between the first and the last allocator call of its entry
\* point: one call made, another still to make.
BetweenCalls(t) ==
  /\ ~thr[t].inside
  /\ 1 < thr[t].at
  /\ thr[t].at <= Len(thr[t].plan)

\* The prepare handler has returned and the parent handler has not run.
Prepared == forker.pc \in {"prepared", "forked"}

\* xxmalloc_lock once before each fork, xxmalloc_unlock once in the parent
\* after it, and at most once (once its handler has run) in each child.
BracketCounts ==
  /\ forker.locks = forker.forks + (IF forker.pc = "prepared" THEN 1 ELSE 0)
  /\ forker.unlocks = forker.forks - (IF forker.pc = "forked" THEN 1 ELSE 0)
  /\ Len(children) = forker.forks
  /\ \A c \in DOMAIN children : children[c] \in {0, 1}

\* C12 as stated: when the fork-prepare handler returns, no thread is
\* inside an operation of the core or of the allocator (none is between
\* the first and the last allocator call of a realloc, reallocf or
\* memalign), and the handlers call lock once before the fork and unlock
\* once in the parent and once in the child.
C12_NoThreadMidOperation ==
  /\ Prepared => \A t \in Workers : ~InAllocator(t) /\ ~BetweenCalls(t)
  /\ BracketCounts

\* C12, amended: from the return of the fork-prepare handler to the parent
\* handler the forking thread holds the heap lock and no thread is inside
\* xxmalloc or xxfree (a thread may be between two allocator calls of its
\* entry point); the handlers call lock once before the fork and unlock
\* once in the parent and once in the child.
C12_ForkBracket ==
  /\ Prepared => lock = Forker /\ \A t \in Workers : ~InAllocator(t)
  /\ BracketCounts

\* The prepare handler has returned for a second fork, the first child has
\* run its handler, and a worker is part-way through its entry point.
C12_Witness ==
  /\ forker.pc = "prepared"
  /\ forker.forks >= 1
  /\ \E c \in DOMAIN children : children[c] = 1
  /\ \E t \in Workers : BetweenCalls(t)

\* A realloc of a live block to at most half its usable size, and not 0.
ShrinkPastHalf ==
  /\ Returned("realloc")
  /\ op.a1 # 0
  /\ 0 < op.a2
  /\ op.a2 <= OldSize(op.a1) \div 2

\* C13: the 1.25x rounding applies only when growing: realloc(ptr, n) with
\* 0 < n <= oldSize/2 asks xxmalloc for exactly n bytes, never for more
\* than oldSize.
C13_ShrinkAsksExactSize ==
  ShrinkPastHalf =>
    /\ Len(calls) = 1
    /\ calls[1].fn = "malloc"
    /\ calls[1].arg = op.a2
    /\ calls[1].arg <= OldSize(op.a1)

\* An aligned allocation has returned, with or without a block.
AlignedReturn ==
  op.name \in {"memalign", "valloc", "posix_memalign"} /\ op.status = "returned"

\* The pointer it handed back, 0 if none.
AlignedPointer ==
  IF op.name = "posix_memalign"
  THEN (IF op.ret = 0 THEN memptr ELSE 0)
  ELSE op.ret

\* The blocks the call has obtained and not freed after its first k calls.
LiveAfter(k) ==
  {calls[i].ret : i \in {j \in 1..k :
      /\ calls[j].fn = "malloc"
      /\ calls[j].ret # 0
      /\ \A f \in (j + 1)..k :
           ~(calls[f].fn = "free" /\ calls[f].arg = calls[j].ret)}}

\* C14: in memalign every rejected attempt is freed before the next
\* xxmalloc, at no point of the call is more than one block obtained by it
\* live, and when it returns the only block it has added to the heap is
\* the one behind the returned pointer (none if it returns null).
C14_NoDanglingAttempt ==
  AlignedReturn =>
    /\ \A i \in 1..(Len(calls) - 1) :
         calls[i].fn = "malloc" => calls[i + 1] = FreeCall(calls[i].ret)
    /\ \A k \in 0..Len(calls) : Cardinality(LiveAfter(k)) <= 1
    /\ DOMAIN pre.heap \subseteq DOMAIN heap
    /\ DOMAIN heap \ DOMAIN pre.heap =
         (IF AlignedPointer = 0 THEN {} ELSE {BlockOf(heap, AlignedPointer)})

\* Two attempts were rejected and the third gave the result.
C14_Witness ==
  /\ Returned("memalign")
  /\ Len(calls) = 5
  /\ calls[1].ret # 0
  /\ calls[3].ret # 0
  /\ op.ret # 0
  /\ DOMAIN heap = {calls[5].ret}

\* The xxfree calls the last operation made on p.
FreesOf(ptr) ==
  {i \in DOMAIN calls : calls[i].fn = "free" /\ calls[i].arg = ptr}

\* C15: a single realloc or reallocf call, whatever its new size (0
\* included) and whichever allocations fail, calls xxfree on its input
\* block at most once, and never on a block that is no longer live.
C15_NoDoubleFree ==
  (op.name \in {"realloc", "reallocf"} /\ op.a1 # 0) =>
    /\ Cardinality(FreesOf(op.a1)) <= 1
    /\ \A i \in FreesOf(op.a1) :
         HasBlock(pre.heap, op.a1) /\ \A j \in 1..(i - 1) : calls[j].fn # "free"

\* C16: the alignment normalization of memalign ends for every alignment a
\* size_t can hold, those above half its range that are no power of two
\* included, and gives a power of two that is >= the requested alignment
\* and >= alignof(max_align_t).
C16_NormalizationEnds ==
  op.name = "memalign" =>
    /\ op.status # "hung"
    /\ LET alignment == NormalizeAlignment(op.a1) IN
       /\ IsPowerOfTwo(alignment)
       /\ alignment >= op.a1
       /\ alignment >= alignof_max_align_t

====
